---- MODULE Spec2Model ----
(***************************************************************************)
(* Model of the road cross-section visualizer                              *)
(* (src/latest_road_visualizer_code.py).                                   *)
(*                                                                         *)
(* Numbers.  Python floats are modelled as exact rationals <<n, d>> in     *)
(* lowest terms with d > 0.  Rounding error of binary floating point is    *)
(* not modelled.                                                           *)
(*                                                                         *)
(* Text.  A string is a sequence of atoms.  An atom is one character that  *)
(* the code inspects (" ", "#", ":", ",", "-", "+", ".", a digit) or a     *)
(* word of letters that the code only ever compares as a whole.  No word   *)
(* of the catalogue is a spelling Python's float() accepts ("nan", "inf",  *)
(* exponent forms).  Lines carry no line terminator: str.strip() removes   *)
(* it before anything else looks at the line.                              *)
(***************************************************************************)
EXTENDS Integers, Sequences, FiniteSets, TLC

----------------------------------------------------------------------------
(* Bounds *)

\* longest file, in lines
MaxLines == 3

\* offsets of the boundaries handed to find_y_at_x on its own: -MaxCoord..MaxCoord
MaxCoord == 1

\* elevations of those boundaries: 0..MaxElev
MaxElev == 1

\* points of the boundaries handed to find_y_at_x on its own
MaxPoints == 3

----------------------------------------------------------------------------
(* Program constants *)

CANVAS_WIDTH == 800

CANVAS_HEIGHT == 600

SCALE == 20

----------------------------------------------------------------------------
(* Rational arithmetic standing for Python float arithmetic *)

Abs(n) == IF n < 0 THEN -n ELSE n

RECURSIVE GCD(_, _)
GCD(a, b) == IF b = 0 THEN a ELSE GCD(b, a % b)

QNorm(n, d) ==
    LET s == IF d < 0 THEN -1 ELSE 1
        g == GCD(Abs(n), Abs(d))
    IN  <<(s * n) \div g, (s * d) \div g>>

Q(n) == <<n, 1>>

QAdd(a, b) == QNorm(a[1] * b[2] + b[1] * a[2], a[2] * b[2])

QSub(a, b) == QNorm(a[1] * b[2] - b[1] * a[2], a[2] * b[2])

QMul(a, b) == QNorm(a[1] * b[1], a[2] * b[2])

QDiv(a, b) == QNorm(a[1] * b[2], a[2] * b[1])

QLt(a, b) == a[1] * b[2] < b[1] * a[2]

QLe(a, b) == a[1] * b[2] <= b[1] * a[2]

QAbs(a) == <<Abs(a[1]), a[2]>>

QMin(a, b) == IF QLt(b, a) THEN b ELSE a

RECURSIVE Pow10(_)
Pow10(k) == IF k = 0 THEN 1 ELSE 10 * Pow10(k - 1)

\* f"{q:.<places>f}": sign, integer part and <places> fractional digits,
\* rounded half to even
Fmt(q, places) ==
    LET a     == QAbs(q)
        num   == a[1] * Pow10(places)
        fl    == num \div a[2]
        rem2  == 2 * (num % a[2])
        units == IF rem2 > a[2] \/ (rem2 = a[2] /\ fl % 2 = 1)
                 THEN fl + 1 ELSE fl
    IN  [neg |-> q[1] < 0, int |-> units \div Pow10(places),
         frac |-> units % Pow10(places), places |-> places]

----------------------------------------------------------------------------
(* Coordinate transform *)

ORIGIN_X == QDiv(Q(CANVAS_WIDTH), Q(2))

ORIGIN_Y == QDiv(Q(CANVAS_HEIGHT), Q(2))

to_canvas_x(offset) == QAdd(ORIGIN_X, QMul(offset, Q(SCALE)))

to_canvas_y(elevation) == QSub(ORIGIN_Y, QMul(elevation, Q(SCALE)))

----------------------------------------------------------------------------
(* Text operations of the Python standard library used by the parser *)

Whitespace == {" ", "\t"}

Digits == {"0", "1", "2", "3", "4", "5", "6", "7", "8", "9"}

DigitVal(c) ==
    CASE c = "0" -> 0 [] c = "1" -> 1 [] c = "2" -> 2 [] c = "3" -> 3
      [] c = "4" -> 4 [] c = "5" -> 5 [] c = "6" -> 6 [] c = "7" -> 7
      [] c = "8" -> 8 [] c = "9" -> 9

RECURSIVE LStrip(_)
LStrip(s) == IF s # <<>> /\ Head(s) \in Whitespace THEN LStrip(Tail(s)) ELSE s

RECURSIVE RStrip(_)
RStrip(s) ==
    IF s # <<>> /\ s[Len(s)] \in Whitespace
    THEN RStrip(SubSeq(s, 1, Len(s) - 1)) ELSE s

\* str.strip()
Strip(s) == RStrip(LStrip(s))

\* str.startswith(prefix)
StartsWith(s, prefix) ==
    Len(s) >= Len(prefix) /\ SubSeq(s, 1, Len(prefix)) = prefix

\* index of the first occurrence of atom c in s, 0 when there is none
RECURSIVE IndexOf(_, _, _)
IndexOf(s, c, i) ==
    IF i > Len(s) THEN 0 ELSE IF s[i] = c THEN i ELSE IndexOf(s, c, i + 1)

\* str.split(sep): every occurrence of sep separates two fields
RECURSIVE Split(_, _)
Split(s, sep) ==
    LET k == IndexOf(s, sep, 1)
    IN  IF k = 0 THEN <<s>>
        ELSE <<SubSeq(s, 1, k - 1)>> \o Split(SubSeq(s, k + 1, Len(s)), sep)

\* str.split(sep, 1)[1]: what follows the first occurrence of sep
AfterFirst(s, sep) == SubSeq(s, IndexOf(s, sep, 1) + 1, Len(s))

RECURSIVE DigitsValue(_)
DigitsValue(ds) ==
    IF ds = <<>> THEN 0
    ELSE 10 * DigitsValue(SubSeq(ds, 1, Len(ds) - 1)) + DigitVal(ds[Len(ds)])

AllDigits(ds) == \A i \in 1..Len(ds) : ds[i] \in Digits

\* float(field): [ok |-> TRUE, v |-> value] or [ok |-> FALSE] for ValueError.
\* Accepted: optional whitespace around, optional sign, digits with an
\* optional point, at least one digit.
ParseFloat(field) ==
    LET t      == Strip(field)
        signed == t # <<>> /\ t[1] \in {"-", "+"}
        body   == IF signed THEN Tail(t) ELSE t
        k      == IndexOf(body, ".", 1)
        ip     == IF k = 0 THEN body ELSE SubSeq(body, 1, k - 1)
        fp     == IF k = 0 THEN <<>> ELSE SubSeq(body, k + 1, Len(body))
        good   == AllDigits(ip) /\ AllDigits(fp) /\ Len(ip) + Len(fp) > 0
        mag    == QNorm(DigitsValue(ip) * Pow10(Len(fp)) + DigitsValue(fp),
                        Pow10(Len(fp)))
    IN  IF ~good THEN [ok |-> FALSE]
        ELSE [ok |-> TRUE,
              v  |-> IF signed /\ t[1] = "-" THEN <<-mag[1], mag[2]>> ELSE mag]

----------------------------------------------------------------------------
(* The lines a .road file is made of *)

RECURSIVE Join(_)
Join(fields) ==
    IF Len(fields) = 1 THEN fields[1]
    ELSE fields[1] \o <<",">> \o Join(Tail(fields))

P(d) == <<d>>

M(d) == <<"-", d>>

Lines == <<
    \* 1: blank
    <<" ">>,
    \* 2: "# CHAINAGE: K1:K2 "
    <<"#", " ", "CHAINAGE", ":", " ", "K1", ":", "K2", " ">>,
    \* 3: "# CHAINAGE:K3"
    <<"#", " ", "CHAINAGE", ":", "K3">>,
    \* 4: "# note"
    <<"#", " ", "note">>,
    \* 5: pavement from left to right
    Join(<<P("ASPHALT"), P("grey"), M("3"), P("0"), P("3"), P("0"),
           P("0"), M("1")>>),
    \* 6: pavement from right to left
    Join(<<P("ASPHALT"), P("black"), P("3"), P("0"), M("3"), P("2"),
           P("0"), M("1")>>),
    \* 7: pavement that does not reach offset 0
    Join(<<P("ASPHALT"), P("grey"), P("1"), P("0"), P("3"), P("0"),
           P("2"), M("1")>>),
    \* 8, 9: the two carriageways of a divided road
    Join(<<P("ASPHALT_L"), P("grey"), M("1"), P("0"), M("4"), P("0"),
           M("4"), M("1")>>),
    Join(<<P("ASPHALT_R"), P("grey"), <<" ", "1">>, P("0"), P("4"), P("0"),
           P("4"), M("1")>>),
    \* 10, 11: two terrain layers
    Join(<<P("TERRAIN"), P("green"), M("6"), M("2"), P("6"), M("2"),
           P("0"), M("3")>>),
    Join(<<P("TERRAIN"), P("olive"), M("6"), M("1"), P("6"), M("1"),
           P("0"), M("3")>>),
    \* 12: subbase, toe - edge - edge - toe
    Join(<<P("SUBBASE"), P("brown"), M("5"), M("2"), M("3"), P("0"),
           P("3"), P("0"), P("5"), M("1")>>),
    \* 13: median
    Join(<<P("MEDIAN"), P("white"), M("1"), P("0"), P("1"), P("0"),
           P("0"), <<"0", ".", "5">>>>),
    \* 14: seven fields
    Join(<<P("ASPHALT"), P("grey"), M("3"), P("0"), P("3"), P("0"),
           P("0")>>),
    \* 15: a coordinate that is not a number
    Join(<<P("ASPHALT_L"), P("grey"), M("1"), P("0"), P("x"), P("0"),
           M("4"), M("1")>>),
    \* 16: nine fields, an odd number of coordinates
    Join(<<P("ASPHALT_R"), P("grey"), P("1"), P("0"), P("4"), P("0"),
           P("4"), M("1"), P("2")>>)
>>

NLines == Len(Lines)

----------------------------------------------------------------------------
(* Analysis helpers *)

None == [kind |-> "None"]

Val(v) == [kind |-> "val", v |-> v]

Raise(e) == [kind |-> "raise", e |-> e]

\* find_layer: the first layer of the type, or None
RECURSIVE find_layer(_, _)
find_layer(layers, layer_type_name) ==
    IF layers = <<>> THEN None
    ELSE IF Head(layers).type = layer_type_name THEN Val(Head(layers))
    ELSE find_layer(Tail(layers), layer_type_name)

\* lines 41-51 with the two endpoints swapped: the elevations stay behind
SegmentY_KeepsElevations(sx1, sy1, sx2, sy2, x_offset) ==
    LET swap == QLt(sx2, sx1)
        x1   == IF swap THEN sx2 ELSE sx1
        x2   == IF swap THEN sx1 ELSE sx2
    IN  IF QLe(x1, x_offset) /\ QLe(x_offset, x2)
        THEN IF QSub(x2, x1) = Q(0) THEN Val(QMin(sy1, sy2))
             ELSE LET t == QDiv(QSub(x_offset, x1), QSub(x2, x1))
                  IN  Val(QAdd(sy1, QMul(t, QSub(sy2, sy1))))
        ELSE None

\* lines 41-51: what one segment answers, None when it does not cover x_offset
SegmentY(sx1, sy1, sx2, sy2, x_offset) ==
    LET swap == QLt(sx2, sx1)
        x1   == IF swap THEN sx2 ELSE sx1
        y1   == IF swap THEN sy2 ELSE sy1
        x2   == IF swap THEN sx1 ELSE sx2
        y2   == IF swap THEN sy1 ELSE sy2
    IN  IF QLe(x1, x_offset) /\ QLe(x_offset, x2)
        THEN IF QSub(x2, x1) = Q(0) THEN Val(QMin(y1, y2))
             ELSE LET t == QDiv(QSub(x_offset, x1), QSub(x2, x1))
                  IN  Val(QAdd(y1, QMul(t, QSub(y2, y1))))
        ELSE None

\* the loop of find_y_at_x from 0-based index i on
RECURSIVE FindYFrom(_, _, _)
FindYFrom(data, x_offset, i) ==
    IF i >= Len(data) - 2 THEN None
    ELSE IF i + 4 > Len(data) THEN Raise("IndexError")
    ELSE LET r == SegmentY(data[i + 1], data[i + 2], data[i + 3], data[i + 4],
                           x_offset)
         IN  IF r # None THEN r ELSE FindYFrom(data, x_offset, i + 2)

find_y_at_x(data_coords, x_offset) == FindYFrom(data_coords, x_offset, 0)

----------------------------------------------------------------------------
(* Record parser: the body of the loop over the lines of the file *)

ChainagePrefix == <<"#", " ", "CHAINAGE", ":">>

DefaultChainage == <<"CHAINAGE", ":", " ", "Unknown">>

\* the comparison of line 156 off by one
MinFields_OffByOne == 8 + 1

MinFields == 8

\* [float(coord) for coord in parts[2:]]
ParseCoords(parts) == [i \in 1..(Len(parts) - 2) |-> ParseFloat(parts[i + 2])]

\* what the body of the loop makes of one line: nothing ("skip": blank line,
\* comment, fewer than MinFields fields), a new chainage, a printed
\* [SKIPPING Line n] diagnostic after a ValueError, or a new layer
ParseLine(raw) ==
    LET line   == Strip(raw)
        parts  == Split(line, ",")
        coords == ParseCoords(parts)
    IN  IF line = <<>> THEN [kind |-> "skip"]
        ELSE IF StartsWith(line, ChainagePrefix)
        THEN [kind |-> "chainage", chainage |-> Strip(AfterFirst(line, ":"))]
        ELSE IF StartsWith(line, <<"#">>) THEN [kind |-> "skip"]
        ELSE IF Len(parts) < MinFields THEN [kind |-> "skip"]
        ELSE IF \E i \in 1..Len(coords) : ~coords[i].ok
        THEN [kind |-> "ValueError"]
        ELSE [kind  |-> "layer",
              layer |-> [type  |-> parts[1],
                         color |-> parts[2],
                         data  |-> [i \in 1..Len(coords) |-> coords[i].v]]]

\* the lines of the catalogue, parsed
ParsedLines == [n \in 1..NLines |-> ParseLine(Lines[n])]

\* one iteration: what it does to global_chainage and layers_data, and
\* whether it printed a diagnostic
ProcessLine(n, chainage, layers) ==
    LET r == ParsedLines[n]
    IN  [chainage |-> IF r.kind = "chainage" THEN r.chainage ELSE chainage,
         layers   |-> IF r.kind = "layer" THEN Append(layers, r.layer)
                      ELSE layers,
         printed  |-> r.kind = "ValueError"]

----------------------------------------------------------------------------
(* Canvas items and the drawing helpers *)

LineItem(x1, y1, x2, y2, fill, arrow, dash) ==
    [kind |-> "line", coords |-> <<x1, y1, x2, y2>>, fill |-> fill,
     arrow |-> arrow, dash |-> dash]

TextItem(x, y, text, anchor, fill, font, angle) ==
    [kind |-> "text", at |-> <<x, y>>, text |-> text, anchor |-> anchor,
     fill |-> fill, font |-> font, angle |-> angle]

PolygonItem(coords, fill, outline, stipple) ==
    [kind |-> "polygon", coords |-> coords, fill |-> fill,
     outline |-> outline, width |-> 1, stipple |-> stipple]

DefaultLeader == 30

\* draw_dim_label: a vertical leader line and a text
draw_dim_label(offset, elevation, text, leader_len, anchor) ==
    LET cx == to_canvas_x(offset)
        cy == to_canvas_y(elevation)
        leader_y_end == IF anchor = "n" THEN QAdd(cy, Q(leader_len))
                        ELSE QSub(cy, Q(leader_len))
        text_y_pos   == IF anchor = "n" THEN QAdd(leader_y_end, Q(5))
                        ELSE QSub(leader_y_end, Q(5))
    IN  << LineItem(cx, cy, cx, leader_y_end, "gray50", "none", "none"),
           TextItem(cx, text_y_pos, text, anchor, "black", "default", "0") >>

\* draw_horizontal_dim: the dimension line, its two ticks and its text
draw_horizontal_dim(y_elev, x1_off, x2_off, text) ==
    LET y_canvas  == to_canvas_y(y_elev)
        x1_canvas == to_canvas_x(x1_off)
        x2_canvas == to_canvas_x(x2_off)
        mid_x     == QDiv(QAdd(x1_canvas, x2_canvas), Q(2))
    IN  << LineItem(x1_canvas, y_canvas, x2_canvas, y_canvas,
                    "gray30", "both", "none"),
           LineItem(x1_canvas, QSub(y_canvas, Q(5)),
                    x1_canvas, QAdd(y_canvas, Q(5)), "gray30", "none", "none"),
           LineItem(x2_canvas, QSub(y_canvas, Q(5)),
                    x2_canvas, QAdd(y_canvas, Q(5)), "gray30", "none", "none"),
           TextItem(mid_x, QSub(y_canvas, Q(5)), text, "s", "gray30",
                    "default", "0") >>

\* draw_slope_label: the 1:N text and the cut/fill text.  The rotation of
\* the first text is kept as the two arguments handed to atan2.
draw_slope_label(p1, p2) ==
    LET offset1 == p1[1]
        elev1   == p1[2]
        offset2 == p2[1]
        elev2   == p2[2]
        mid_offset == QDiv(QAdd(offset1, offset2), Q(2))
        mid_elev   == QDiv(QAdd(elev1, elev2), Q(2))
        run  == QAbs(QSub(offset2, offset1))
        rise == QAbs(QSub(elev2, elev1))
        slope_text == IF rise = Q(0) THEN <<"Level">>
                      ELSE <<"1 : ", Fmt(QDiv(run, rise), 1)>>
        cx == to_canvas_x(mid_offset)
        cy == to_canvas_y(mid_elev)
        angle == <<"-atan2", QSub(to_canvas_y(elev2), to_canvas_y(elev1)),
                   QSub(to_canvas_x(offset2), to_canvas_x(offset1))>>
        zone == IF QLt(elev2, elev1) THEN <<"FILL\n(Embankment)">>
                ELSE <<"CUT\n(Cutting)">>
    IN  << TextItem(cx, cy, slope_text, "center", "blue", "default", angle),
           TextItem(cx, QAdd(cy, Q(30)), zone, "center", "darkblue",
                    "Arial 9", "0") >>

\* the three items drawn before the file is opened
Axes ==
    << LineItem(Q(0), ORIGIN_Y, Q(CANVAS_WIDTH), ORIGIN_Y, "grey", "none", "2 2"),
       LineItem(ORIGIN_X, Q(0), ORIGIN_X, Q(CANVAS_HEIGHT), "grey", "none", "2 2"),
       TextItem(QAdd(ORIGIN_X, Q(5)), QAdd(ORIGIN_Y, Q(5)),
                <<"(0, 0) Centerline">>, "nw", "black", "default", "0") >>

\* the text the handler of a failed load draws
ErrorText(e) ==
    TextItem(ORIGIN_X, ORIGIN_Y, <<"Error reading file:\n", e>>, "center",
             "red", "Arial 12", "0")

\* canvas.delete("all")
CanvasDeleteAll(c) == <<>>

----------------------------------------------------------------------------
(* Drawing the layers.  A block of statements yields the items it drew and *)
(* the exception that ended it, if any.                                    *)

NoExc == "none"

\* the loop that turns the data of one layer into canvas coordinates
PolygonCoords(data) ==
    IF Len(data) % 2 = 1 THEN Raise("IndexError")
    ELSE Val([i \in 1..Len(data) |->
                 IF i % 2 = 1 THEN to_canvas_x(data[i])
                 ELSE to_canvas_y(data[i])])

\* the terrain block
DrawTerrain(layers) ==
    LET terrain == find_layer(layers, <<"TERRAIN">>)
        cc      == PolygonCoords(terrain.v.data)
    IN  IF terrain = None THEN [items |-> <<>>, exc |-> NoExc]
        ELSE IF cc.kind = "raise" THEN [items |-> <<>>, exc |-> cc.e]
        ELSE [items |-> <<PolygonItem(cc.v, terrain.v.color, "darkgreen",
                                      "gray25")>>,
              exc   |-> NoExc]

\* whether the loop over the other layers passes a layer by
SkippedByLoop(layer) == layer.type = <<"TERRAIN">>

\* the loop over the other layers
RECURSIVE DrawOthers(_)
DrawOthers(layers) ==
    IF layers = <<>> THEN [items |-> <<>>, exc |-> NoExc]
    ELSE IF SkippedByLoop(Head(layers)) THEN DrawOthers(Tail(layers))
    ELSE LET cc == PolygonCoords(Head(layers).data)
             r  == DrawOthers(Tail(layers))
         IN  IF cc.kind = "raise" THEN [items |-> <<>>, exc |-> cc.e]
             ELSE [items |-> <<PolygonItem(cc.v, Head(layers).color, "white",
                                           "none")>> \o r.items,
                   exc   |-> r.exc]

\* one block after the other; the second does not run when the first raised
Then(a, b) ==
    IF a.exc # NoExc THEN a
    ELSE [items |-> a.items \o b.items, exc |-> b.exc]

DrawBlock(layers) == Then(DrawTerrain(layers), DrawOthers(layers))

----------------------------------------------------------------------------
(* Labels and dimensions *)

Block(items) == [items |-> items, exc |-> NoExc]

TitleBlock(chainage) ==
    Block(<<TextItem(QDiv(Q(CANVAS_WIDTH), Q(2)), Q(25),
                     <<"Chainage: ">> \o chainage, "center", "black",
                     "Arial 16 bold", "0")>>)

EdgeLabel(off, elev) ==
    draw_dim_label(off, elev,
                   <<"E.P.\n(", Fmt(off, 2), ", ", Fmt(elev, 2), ")">>,
                   DefaultLeader, "s")

WidthText(width) == <<"Width: ", Fmt(width, 2), "m">>

\* width of the simple road
SimpleWidth(ep_left_off, ep_right_off) == QSub(ep_right_off, ep_left_off)

\* width of one carriageway
CarriagewayWidth(ep_inner_off, ep_outer_off) ==
    QAbs(QSub(ep_outer_off, ep_inner_off))

\* Case 1: simple road
SimpleBlock(data) ==
    LET cl_elev == find_y_at_x(data, Q(0))
        centre  == IF cl_elev.kind = "val"
                   THEN draw_dim_label(Q(0), cl_elev.v,
                            <<"Centerline\n(Elev: ", Fmt(cl_elev.v, 2), "m)">>,
                            DefaultLeader, "s")
                   ELSE <<>>
        edges   == EdgeLabel(data[1], data[2]) \o EdgeLabel(data[3], data[4])
        width   == SimpleWidth(data[1], data[3])
    IN  IF cl_elev.kind = "raise" THEN [items |-> <<>>, exc |-> cl_elev.e]
        ELSE IF cl_elev = None
        THEN [items |-> centre \o edges, exc |-> "TypeError"]
        ELSE Block(centre \o edges \o
                   draw_horizontal_dim(QAdd(cl_elev.v, Q(1)), data[1], data[3],
                                       WidthText(width)))

\* the labels of one carriageway
CarriagewayItems(data) ==
    EdgeLabel(data[1], data[2]) \o EdgeLabel(data[3], data[4]) \o
    draw_horizontal_dim(QAdd(data[2], <<1, 2>>), data[1], data[3],
                        WidthText(CarriagewayWidth(data[1], data[3])))

MedianCentreline ==
    draw_dim_label(Q(0), Q(0), <<"Centerline\n(Median)">>, DefaultLeader, "n")

\* Case 2: divided highway
DividedBlock(data_l, data_r) ==
    Block(MedianCentreline \o CarriagewayItems(data_l) \o
          CarriagewayItems(data_r))

\* the if / elif on the pavement layers
PavementBlock(asphalt, asphalt_l, asphalt_r) ==
    IF asphalt # None THEN SimpleBlock(asphalt.v.data)
    ELSE IF asphalt_l # None /\ asphalt_r # None
    THEN DividedBlock(asphalt_l.v.data, asphalt_r.v.data)
    ELSE Block(<<>>)

MedianBlock(median) ==
    IF median = None THEN Block(<<>>)
    ELSE Block(draw_dim_label(QAdd(median.v.data[1], <<1, 2>>),
                              median.v.data[2], <<"Median\nBarrier">>, 15, "s"))

SlopeBlock(subbase, terrain) ==
    IF subbase = None \/ terrain = None THEN Block(<<>>)
    ELSE LET d == subbase.v.data
             n == Len(d)
         IN  Block(draw_slope_label(<<d[3], d[4]>>, <<d[1], d[2]>>) \o
                   draw_slope_label(<<d[n - 3], d[n - 2]>>, <<d[n - 1], d[n]>>))

AnnotateBlock(layers, chainage) ==
    LET asphalt   == find_layer(layers, <<"ASPHALT">>)
        asphalt_l == find_layer(layers, <<"ASPHALT_L">>)
        asphalt_r == find_layer(layers, <<"ASPHALT_R">>)
        subbase   == find_layer(layers, <<"SUBBASE">>)
        median    == find_layer(layers, <<"MEDIAN">>)
        terrain   == find_layer(layers, <<"TERRAIN">>)
    IN  Then(Then(Then(TitleBlock(chainage),
                       PavementBlock(asphalt, asphalt_l, asphalt_r)),
                  MedianBlock(median)),
             SlopeBlock(subbase, terrain))

----------------------------------------------------------------------------
(* State *)

VARIABLES
    pc,               \* where load_road_section is: "idle", "parse", "annotate"
    lastOp,           \* how the last file dialog ended: "none", "cancel", "open"
    text,             \* the lines read from the chosen file so far (catalogue numbers)
    layers_data,      \* local layers_data
    global_chainage,  \* local global_chainage
    skipped,          \* the line numbers printed as [SKIPPING Line n] by this load
    canvas,           \* the items on the canvas, oldest first
    status,           \* the text of status_label
    fy_pc,            \* find_y_at_x on its own: "off", "ready", "done"
    fy_data,
    fy_x,
    fy_res

vars == <<pc, lastOp, text, layers_data, global_chainage, skipped, canvas,
          status, fy_pc, fy_data, fy_x, fy_res>>

loadVars == <<pc, lastOp, text, layers_data, global_chainage, skipped, canvas,
              status>>

fyVars == <<fy_pc, fy_data, fy_x, fy_res>>

\* items drawn by the load in progress
Fresh(items) == [i \in DOMAIN items |-> [stale |-> FALSE, obj |-> items[i]]]

\* items that were on the canvas before the load in progress
Stale(c) == [i \in DOMAIN c |-> [stale |-> TRUE, obj |-> c[i].obj]]

StartState ==
    /\ pc = "idle"
    /\ lastOp = "none"
    /\ text = <<>>
    /\ layers_data = <<>>
    /\ global_chainage = DefaultChainage
    /\ skipped = <<>>
    /\ canvas = <<>>
    /\ status = <<"Ready.">>

Init ==
    /\ StartState
    /\ fy_pc = "off"
    /\ fy_data = <<>>
    /\ fy_x = Q(0)
    /\ fy_res = None

----------------------------------------------------------------------------
(* load_road_section *)

\* the dialog is closed without a file
Cancel ==
    /\ pc = "idle"
    /\ lastOp' = "cancel"
    /\ UNCHANGED <<pc, text, layers_data, global_chainage, skipped, canvas,
                   status>>
    /\ UNCHANGED fyVars

\* lines 132-140: what happens between the dialog and open()
Cleared == Stale(CanvasDeleteAll(canvas)) \o Fresh(Axes)

\* a file is chosen and open() succeeds
OpenFile ==
    /\ pc = "idle"
    /\ lastOp' = "open"
    /\ canvas' = Cleared
    /\ status' = <<"Loading">>
    /\ global_chainage' = DefaultChainage
    /\ layers_data' = <<>>
    /\ text' = <<>>
    /\ skipped' = <<>>
    /\ pc' = "parse"
    /\ UNCHANGED fyVars

\* a file is chosen and open() raises
OpenFails ==
    /\ pc = "idle"
    /\ lastOp' = "open"
    /\ canvas' = Cleared \o Fresh(<<ErrorText("OSError")>>)
    /\ status' = <<"Error: ", "OSError">>
    /\ global_chainage' = DefaultChainage
    /\ layers_data' = <<>>
    /\ text' = <<>>
    /\ skipped' = <<>>
    /\ pc' = "idle"
    /\ UNCHANGED fyVars

\* one iteration of the loop over the lines
ReadLine ==
    /\ pc = "parse"
    /\ Len(text) < MaxLines
    /\ \E n \in 1..NLines :
         LET r == ProcessLine(n, global_chainage, layers_data)
         IN  /\ text' = Append(text, n)
             /\ global_chainage' = r.chainage
             /\ layers_data' = r.layers
             /\ skipped' = IF r.printed THEN Append(skipped, Len(text) + 1)
                           ELSE skipped
    /\ UNCHANGED <<pc, lastOp, canvas, status>>
    /\ UNCHANGED fyVars

\* end of file, then lines 170-197
DrawLayers ==
    /\ pc = "parse"
    /\ LET r == DrawBlock(layers_data)
       IN  IF r.exc = NoExc
           THEN /\ canvas' = canvas \o Fresh(r.items)
                /\ pc' = "annotate"
                /\ UNCHANGED status
           ELSE /\ canvas' = canvas \o Fresh(Append(r.items, ErrorText(r.exc)))
                /\ status' = <<"Error: ", r.exc>>
                /\ pc' = "idle"
    /\ UNCHANGED <<lastOp, text, layers_data, global_chainage, skipped>>
    /\ UNCHANGED fyVars

\* lines 199-275, and the handler of lines 277-280
Annotate ==
    /\ pc = "annotate"
    /\ LET r == AnnotateBlock(layers_data, global_chainage)
       IN  IF r.exc = NoExc
           THEN /\ canvas' = canvas \o Fresh(r.items)
                /\ status' = <<"Ready.">>
           ELSE /\ canvas' = canvas \o Fresh(Append(r.items, ErrorText(r.exc)))
                /\ status' = <<"Error: ", r.exc>>
    /\ pc' = "idle"
    /\ UNCHANGED <<lastOp, text, layers_data, global_chainage, skipped>>
    /\ UNCHANGED fyVars

Next == Cancel \/ OpenFile \/ OpenFails \/ ReadLine \/ DrawLayers \/ Annotate

Spec == Init /\ [][Next]_vars

----------------------------------------------------------------------------
(* find_y_at_x on its own *)

Coords == (0 - MaxCoord)..MaxCoord

Elevs == 0..MaxElev

PointSet == Coords \X Elevs

Flatten(f) ==
    [i \in 1..(2 * Len(f)) |-> Q(f[(i + 1) \div 2][IF i % 2 = 1 THEN 1 ELSE 2])]

\* the boundaries of k points
Boundaries(k) == { Flatten(f) : f \in [1..k -> PointSet] }

\* whole and half offsets
Offsets == { QNorm(h, 2) : h \in (0 - 2 * MaxCoord)..(2 * MaxCoord) }

InitFind ==
    /\ StartState
    /\ fy_pc = "ready"
    /\ \E k \in 2..MaxPoints : fy_data \in Boundaries(k)
    /\ fy_x \in Offsets
    /\ fy_res = None

Query ==
    /\ fy_pc = "ready"
    /\ fy_res' = find_y_at_x(fy_data, fy_x)
    /\ fy_pc' = "done"
    /\ UNCHANGED <<fy_data, fy_x>>
    /\ UNCHANGED loadVars

NextFind == Query

SpecFind == InitFind /\ [][NextFind]_vars

----------------------------------------------------------------------------
(* What is on the canvas *)

Objs == [i \in DOMAIN canvas |-> canvas[i].obj]

IsPolygon(o) == o.kind = "polygon"

IsText(o, first) == o.kind = "text" /\ o.text[1] = first

IsDimensionLine(o) == o.kind = "line" /\ o.arrow = "both"

Polygons == SelectSeq(Objs, IsPolygon)

IsEdgeText(o) == IsText(o, "E.P.\n(")

IsWidthText(o) == IsText(o, "Width: ")

IsTitle(o) == IsText(o, "Chainage: ")

IsMedianCentreline(o) == IsText(o, "Centerline\n(Median)")

IsErrorText(o) == IsText(o, "Error reading file:\n")

Count(seq, Test(_)) == Len(SelectSeq(seq, Test))

HasType(name) == find_layer(layers_data, name) # None

\* a load has run to its end
Finished == pc = "idle" /\ canvas # <<>>

\* a load has run to its end and its annotation step was entered
Annotated == Finished /\ Count(Objs, IsTitle) > 0

Fatal == status[1] = "Error: "

----------------------------------------------------------------------------
(* C1 *)

IsDataLine(raw) == Strip(raw) # <<>> /\ Strip(raw)[1] # "#"

Fields(raw) == Split(Strip(raw), ",")

TooFewFields(raw) == IsDataLine(raw) /\ Len(Fields(raw)) < 8

BadCoordinate(raw) ==
    /\ IsDataLine(raw)
    /\ Len(Fields(raw)) >= 8
    /\ \E i \in 3..Len(Fields(raw)) : ~ParseFloat(Fields(raw)[i]).ok

WellFormed(raw) == IsDataLine(raw) /\ ~TooFewFields(raw) /\ ~BadCoordinate(raw)

RecordOf(raw) ==
    [type  |-> Fields(raw)[1],
     color |-> Fields(raw)[2],
     data  |-> [i \in 1..(Len(Fields(raw)) - 2) |->
                   ParseFloat(Fields(raw)[i + 2]).v]]

\* the catalogue, classified once
Kept == [n \in 1..NLines |-> WellFormed(Lines[n])]

Records == [n \in 1..NLines |-> IF Kept[n] THEN RecordOf(Lines[n]) ELSE None]

IsWellFormedLine(n) == Kept[n]

WellFormedRecords(t) ==
    LET kept == SelectSeq(t, IsWellFormedLine)
    IN  [i \in DOMAIN kept |-> Records[kept[i]]]

\* C1: whatever lines have been read, layers_data is exactly the well-formed
\* data records among them, in file order: a line with fewer than 8 fields
\* or with a coordinate that is not a number is left out, and reading such a
\* line leaves the load in progress (it is not turned into a failed load).
C1_ParserSkipsBadRecords ==
    /\ layers_data = WellFormedRecords(text)
    /\ pc = "parse" => status = <<"Loading">>

\* a load that read a 7-field line, then a line with a bad coordinate, then
\* a well-formed line, and ended with that one layer
C1_Witness ==
    /\ Finished
    /\ status = <<"Ready.">>
    /\ Len(text) = 3
    /\ TooFewFields(Lines[text[1]])
    /\ BadCoordinate(Lines[text[2]])
    /\ WellFormed(Lines[text[3]])
    /\ Len(layers_data) = 1
    /\ skipped = <<2>>

----------------------------------------------------------------------------
(* C2, C3: find_y_at_x *)

NSeg(data) == Len(data) \div 2 - 1

SX1(data, k) == data[2 * k - 1]

SY1(data, k) == data[2 * k]

SX2(data, k) == data[2 * k + 1]

SY2(data, k) == data[2 * k + 2]

StrictlyInside(data, k, x) ==
    \/ QLt(SX1(data, k), x) /\ QLt(x, SX2(data, k))
    \/ QLt(SX2(data, k), x) /\ QLt(x, SX1(data, k))

Touches(data, k, x) ==
    \/ QLe(SX1(data, k), x) /\ QLe(x, SX2(data, k))
    \/ QLe(SX2(data, k), x) /\ QLe(x, SX1(data, k))

\* y1 + (offset - x1) / (x2 - x1) * (y2 - y1) on the endpoints as stored
Interpolation(data, k, x) ==
    QAdd(SY1(data, k),
         QMul(QDiv(QSub(x, SX1(data, k)), QSub(SX2(data, k), SX1(data, k))),
              QSub(SY2(data, k), SY1(data, k))))

OnlySegmentAround(data, k, x) ==
    /\ StrictlyInside(data, k, x)
    /\ \A j \in 1..NSeg(data) : j # k => ~StrictlyInside(data, j, x)

\* C2 as stated: an offset strictly inside the x-range of exactly one
\* segment gets the linear interpolation on that segment.
C2_AsStated ==
    fy_pc = "done" =>
        \A k \in 1..NSeg(fy_data) :
            OnlySegmentAround(fy_data, k, fy_x) =>
                fy_res = Val(Interpolation(fy_data, k, fy_x))

\* C2: an offset strictly inside the x-range of exactly one segment, and not
\* at an endpoint offset of a segment scanned before it, gets the linear
\* interpolation on that segment, whichever way round its endpoints are stored.
C2_InterpolationOnFirstCover ==
    fy_pc = "done" =>
        \A k \in 1..NSeg(fy_data) :
            ( /\ OnlySegmentAround(fy_data, k, fy_x)
              /\ \A j \in 1..(k - 1) : ~Touches(fy_data, j, fy_x) ) =>
                fy_res = Val(Interpolation(fy_data, k, fy_x))

\* the second segment, stored from high to low offset, answers with an
\* elevation that is neither of its endpoints'
C2_Witness ==
    /\ fy_pc = "done"
    /\ NSeg(fy_data) >= 2
    /\ OnlySegmentAround(fy_data, 2, fy_x)
    /\ ~Touches(fy_data, 1, fy_x)
    /\ QLt(SX2(fy_data, 2), SX1(fy_data, 2))
    /\ fy_res = Val(Interpolation(fy_data, 2, fy_x))
    /\ fy_res # Val(SY1(fy_data, 2))
    /\ fy_res # Val(SY2(fy_data, 2))

VerticalAt(data, k, x) == SX1(data, k) = SX2(data, k) /\ SX1(data, k) = x

\* C3 as stated: when a vertical segment of the boundary stands at the
\* queried offset (and it is the only vertical segment there), the answer is
\* the lower of its two elevations.
C3_VerticalGivesLower ==
    fy_pc = "done" =>
        \A k \in 1..NSeg(fy_data) :
            ( /\ VerticalAt(fy_data, k, fy_x)
              /\ \A j \in 1..NSeg(fy_data) :
                     j # k => ~VerticalAt(fy_data, j, fy_x) ) =>
                fy_res = Val(QMin(SY1(fy_data, k), SY2(fy_data, k)))

----------------------------------------------------------------------------
(* C4 - C10: one load from the dialog to the status line *)

\* the file was opened, and the load has run to its end
Loaded == Finished /\ status # <<"Error: ", "OSError">>

Contains(seq, part) ==
    \E i \in 0..(Len(seq) - Len(part)) : SubSeq(seq, i + 1, i + Len(part)) = part

FirstData(name) == find_layer(layers_data, name).v.data

SimpleEdgeLabels ==
    EdgeLabel(FirstData(<<"ASPHALT">>)[1], FirstData(<<"ASPHALT">>)[2]) \o
    EdgeLabel(FirstData(<<"ASPHALT">>)[3], FirstData(<<"ASPHALT">>)[4])

DividedAnnotations ==
    /\ Count(Objs, IsMedianCentreline) = 1
    /\ Count(Objs, IsDimensionLine) = 2
    /\ Count(Objs, IsWidthText) = 2

NoPavementAnnotation ==
    /\ Count(Objs, IsMedianCentreline) = 0
    /\ Count(Objs, IsDimensionLine) = 0
    /\ Count(Objs, IsWidthText) = 0
    /\ Count(Objs, IsEdgeText) = 0

\* C4 as stated: with an ASPHALT layer the edge-of-pavement labels of the
\* simple cross-section are on the canvas and nothing of the divided one;
\* the divided annotations (median centreline, one width dimension per
\* carriageway) are there exactly when ASPHALT is absent and ASPHALT_L and
\* ASPHALT_R are both present; otherwise there is no pavement annotation.
C4_TopologyPrecedence ==
    Loaded =>
        /\ HasType(<<"ASPHALT">>) =>
              /\ Contains(Objs, SimpleEdgeLabels)
              /\ Count(Objs, IsMedianCentreline) = 0
        /\ DividedAnnotations <=>
              /\ ~HasType(<<"ASPHALT">>)
              /\ HasType(<<"ASPHALT_L">>)
              /\ HasType(<<"ASPHALT_R">>)
        /\ ( /\ ~HasType(<<"ASPHALT">>)
             /\ ~(HasType(<<"ASPHALT_L">>) /\ HasType(<<"ASPHALT_R">>)) )
              => NoPavementAnnotation

\* C5 as stated: a load whose annotation step was entered ends with the
\* status Ready.
C5_AnnotationNeverFatal == Annotated => status = <<"Ready.">>

CentrelineElevation == find_y_at_x(FirstData(<<"ASPHALT">>), Q(0))

ExpectedDimension ==
    LET d == FirstData(<<"ASPHALT">>)
        y == to_canvas_y(QAdd(CentrelineElevation.v, Q(1)))
    IN  LineItem(to_canvas_x(d[1]), y, to_canvas_x(d[3]), y,
                 "gray30", "both", "none")

\* C6 as stated: with an ASPHALT layer whose boundary covers offset 0, an
\* annotated load shows exactly one dimension line, one metre above the
\* centreline elevation, from the offset of point 0 to the offset of point 1,
\* and its text is the absolute width |offset(point 1) - offset(point 0)|.
C6_SimpleDimension ==
    (Annotated /\ HasType(<<"ASPHALT">>) /\ CentrelineElevation.kind = "val") =>
        /\ SelectSeq(Objs, IsDimensionLine) = <<ExpectedDimension>>
        /\ Count(Objs, IsWidthText) = 1
        /\ \A i \in DOMAIN Objs :
               IsWidthText(Objs[i]) =>
                   Objs[i].text =
                       WidthText(QAbs(QSub(FirstData(<<"ASPHALT">>)[3],
                                           FirstData(<<"ASPHALT">>)[1])))

\* C7 as stated: every layer of layers_data has an even number of coordinate
\* values, and no load that opened its file ends in the fatal-error state
\* for want of a coordinate.
C7_OddRecordsRejected ==
    /\ \A i \in DOMAIN layers_data : Len(layers_data[i].data) % 2 = 0
    /\ Loaded => status # <<"Error: ", "IndexError">>

IsDirective(n) == StartsWith(Strip(Lines[n]), <<"#", " ", "CHAINAGE", ":">>)

ExpectedChainage(t) ==
    LET ds == SelectSeq(t, IsDirective)
    IN  IF ds = <<>> THEN <<"Unknown">>
        ELSE Strip(AfterFirst(Strip(Lines[ds[Len(ds)]]), ":"))

\* C8 as stated: once the file is read to its end, the chainage is the
\* trimmed text after the first colon of the last "# CHAINAGE:" line, and
\* exactly "Unknown" when there is no such line; no directive line became a
\* layer or a diagnostic.
C8_ChainageResolution ==
    pc = "annotate" =>
        /\ global_chainage = ExpectedChainage(text)
        /\ \A i \in DOMAIN text :
               IsDirective(text[i]) =>
                   /\ \A j \in DOMAIN skipped : skipped[j] # i
                   /\ ~IsWellFormedLine(text[i])

\* C9 as stated: after a load, nothing on the canvas is older than that load;
\* and when the load ended in the fatal-error state, the canvas holds the
\* axes and the error message and nothing else.
C9_SurfaceContent ==
    Finished =>
        /\ \A i \in DOMAIN canvas : ~canvas[i].stale
        /\ Fatal => Objs = Axes \o <<ErrorText(status[2])>>

RECURSIVE FirstIndex(_, _, _)
FirstIndex(layers, name, i) ==
    IF i > Len(layers) THEN 0
    ELSE IF layers[i].type = name THEN i
    ELSE FirstIndex(layers, name, i + 1)

\* first TERRAIN layer, then every other layer in file order
ExpectedDrawOrder(layers) ==
    LET t == FirstIndex(layers, <<"TERRAIN">>, 1)
    IN  IF t = 0 THEN layers
        ELSE <<layers[t]>> \o SubSeq(layers, 1, t - 1) \o
             SubSeq(layers, t + 1, Len(layers))

Shape(o) == [coords |-> o.coords, fill |-> o.fill]

\* C10 as stated: when the layers have been drawn, the polygons on the
\* canvas are the first TERRAIN layer (if any) followed by all the other
\* layers in file order, one polygon for each layer.
C10_DrawOrder ==
    pc = "annotate" =>
        LET want == ExpectedDrawOrder(layers_data)
        IN  [i \in DOMAIN Polygons |-> Shape(Polygons[i])] =
            [i \in DOMAIN want |->
                [coords |-> PolygonCoords(want[i].data).v,
                 fill   |-> want[i].color]]

====
